---- MODULE Spec2Model ----
(***************************************************************************)
(* Model of the group / capability creation handlers of idshield           *)
(* (webservices/groupservice/create_capability.go and grouphandler.go).    *)
(*                                                                         *)
(* One handler run is a little state machine: token extraction, body      *)
(* binding, field validation, createGroup, getGroup, response.  The two    *)
(* provider calls are blocking, so each is split into the call and its    *)
(* return; the identity provider and the caller are the environment.       *)
(*                                                                         *)
(* Go values: a pointer is an option, Nil == <<>> or Ptr(v) == <<v>>;      *)
(* strings are TLA+ strings; a []T is a sequence; a map is a record.       *)
(***************************************************************************)
EXTENDS Integers, Sequences, FiniteSets, TLC

VARIABLES
    pc,         \* pc[r]: position of the handler run serving request r
    route,      \* route[r]: "capability" or "group", the handler invoked
    header,     \* header[r]: the Authorization header, NoHeader when absent
    body,       \* body[r]: the request body (JSON, see Bodies)
    token,      \* token[r]: result of router.ExtractToken
    req,        \* req[r]: the decoded CreateCapabilityRequest / CreateGroupRequest
    elapsed,    \* elapsed[r]: seconds since ctx was derived (line 93)
    createdID,  \* createdID[r]: id returned by client.CreateGroup
    groupInfo,  \* groupInfo[r]: *gocloak.Group returned by client.GetGroup
    err,        \* err[r]: error text of the last provider call, Nil when none
    resp,       \* resp[r]: the envelopes written to the caller, in order
    calls,      \* calls[r]: the provider calls made, with their replies
    groups,     \* the provider's groups (system of record)
    nextId,     \* the provider's id counter
    jsonTags,   \* whether wscutils.WscValidate reports JSON tag names
    ctx,        \* ctx[r]: the context derived at line 93: "none", "live", "cancelled"
    callerGone  \* callerGone[r]: the caller cancelled the inbound request

vars == <<pc, route, header, body, token, req, elapsed, createdID, groupInfo,
          err, resp, calls, groups, nextId, jsonTags, ctx, callerGone>>

-----------------------------------------------------------------------------
(* Bounds *)

\* number of request slots; Spec runs one request, the slots exist so that
\* concurrent runs share the provider state
MaxReqs == 2

ReqIds == 1..MaxReqs

-----------------------------------------------------------------------------
(* Go values *)

Nil == <<>>
Ptr(v) == <<v>>
Deref(p) == p[1]

\* strings.HasPrefix / strings.TrimPrefix
HasPrefix(s, p) == Len(s) >= Len(p) /\ SubSeq(s, 1, Len(p)) = p
TrimPrefix(s, p) == IF HasPrefix(s, p) THEN SubSeq(s, Len(p) + 1, Len(s)) ELSE s

-----------------------------------------------------------------------------
(* Inputs *)

NoHeader == Nil

Routes == {"capability", "group"}

\* Authorization header values a caller may send
HeaderValues == {"", "Bearer tok1", "Bearer ", "Bearer", "bearer tok1",
                 "BEARER tok1", "Basic dXNlcg=="}

\* the header of a request: absent, or present with one of the values
Headers == {NoHeader} \cup {Ptr(h) : h \in HeaderValues}

\* c.GetHeader: the empty string when the header is absent
GetHeader(h) == IF h = NoHeader THEN "" ELSE Deref(h)

Names == {"", "Admins", "Ops"}

\* a request's attributes and the ones the provider may store instead
ReqAttrs == [team |-> <<"core", "infra">>]
ProviderAttrs == [owner |-> <<"kc">>]

\* JSON values of a body field
JAbsent == [t |-> "absent"]
JNull == [t |-> "null"]
JNumber == [t |-> "number"]
JString(s) == [t |-> "string", s |-> s]
JMap(m) == [t |-> "map", m |-> m]

NameFields == {JAbsent, JNull, JNumber} \cup {JString(n) : n \in Names}
AttrFields == {JAbsent, JNull, JString("x"), JMap(ReqAttrs)}

\* request bodies: no bytes at all, text that is not JSON, JSON that is not
\* an object, and JSON objects with the two fields the handlers read
Bodies ==
    {[json |-> "empty"], [json |-> "malformed"], [json |-> "array"], [json |-> "null"]}
    \cup {[json |-> "object", name |-> n, attributes |-> a] :
            n \in NameFields, a \in AttrFields}

-----------------------------------------------------------------------------
(* router.ExtractToken, as called at line 41 *)

BearerPrefix == "Bearer "

\* ExtractToken without the scheme check
ExtractTokenNoSchemeCheck(headerValue) ==
    IF headerValue = ""
    THEN [token |-> "", err |-> Ptr("authorization header is missing")]
    ELSE [token |-> TrimPrefix(headerValue, BearerPrefix), err |-> Nil]

ExtractToken(headerValue) ==
    IF headerValue = ""
    THEN [token |-> "", err |-> Ptr("authorization header is missing")]
    ELSE IF ~HasPrefix(headerValue, BearerPrefix)
    THEN [token |-> "", err |-> Ptr("authorization header format must be Bearer {token}")]
    ELSE [token |-> TrimPrefix(headerValue, BearerPrefix), err |-> Nil]

-----------------------------------------------------------------------------
(* wscutils.BindJSON into the request struct, lines 66-68 *)

\* the zero value of CreateCapabilityRequest / CreateGroupRequest
ZeroRequest == [Name |-> Nil, Attributes |-> Nil]

\* encoding/json on the Name field (*string)
DecodeName(j) ==
    IF j.t = "string" THEN [ok |-> TRUE, v |-> Ptr(j.s)]
    ELSE IF j.t \in {"absent", "null"} THEN [ok |-> TRUE, v |-> Nil]
    ELSE [ok |-> FALSE, v |-> Nil]

\* encoding/json on the Attributes field (*map[string][]string)
DecodeAttributes(j) ==
    IF j.t = "map" THEN [ok |-> TRUE, v |-> Ptr(j.m)]
    ELSE IF j.t \in {"absent", "null"} THEN [ok |-> TRUE, v |-> Nil]
    ELSE [ok |-> FALSE, v |-> Nil]

\* a decoder that skips a field of the wrong JSON type instead of failing
BindJSONLenient(b) ==
    IF b.json \in {"empty", "malformed", "array"}
    THEN [err |-> TRUE, req |-> ZeroRequest]
    ELSE IF b.json = "null"
    THEN [err |-> FALSE, req |-> ZeroRequest]
    ELSE [err |-> FALSE,
          req |-> [Name |-> DecodeName(b.name).v,
                   Attributes |-> DecodeAttributes(b.attributes).v]]

\* a JSON null leaves the struct untouched without error; anything that is
\* neither null nor an object, or a field of the wrong JSON type, is an error
BindJSON(b) ==
    IF b.json \in {"empty", "malformed", "array"}
    THEN [err |-> TRUE, req |-> ZeroRequest]
    ELSE IF b.json = "null"
    THEN [err |-> FALSE, req |-> ZeroRequest]
    ELSE LET n == DecodeName(b.name)
             a == DecodeAttributes(b.attributes)
         IN  IF n.ok /\ a.ok
             THEN [err |-> FALSE, req |-> [Name |-> n.v, Attributes |-> a.v]]
             ELSE [err |-> TRUE, req |-> ZeroRequest]

-----------------------------------------------------------------------------
(* wscutils responses *)

ErrorStatus == "error"
SuccessStatus == "success"

BuildErrorMessage(errcode, fieldName, vals) ==
    [field |-> fieldName, errcode |-> errcode, vals |-> vals]

NewResponse(status, data, messages) ==
    [status |-> status, data |-> data, messages |-> messages]

NewErrorResponse(errcode) ==
    NewResponse(ErrorStatus, Nil, <<BuildErrorMessage(errcode, Nil, <<>>)>>)

\* what SendErrorResponse / SendSuccessResponse write: the envelope as given
SentError(response) == [kind |-> "error", envelope |-> response]
SentSuccess(response) == [kind |-> "success", envelope |-> response]

-----------------------------------------------------------------------------
(* Field validation: validateCreateCapability / validateCreateGroup *)

\* a "required" rule that lets a nil pointer pass
hasValueEvenNil(p) == TRUE

\* validator's "required" on a *string field: a nil pointer has no value; a
\* non-nil pointer has one whatever it points to, the empty string included
hasValue(p) == p # Nil

\* err.Field(): the JSON tag name when WscValidate registers a tag-name
\* function, the Go field name otherwise
FieldName(tags) == IF tags THEN "name" ELSE "Name"

RequiredMessage(rt) ==
    IF rt = "capability" THEN "Capability name is required" ELSE "group name is required"

\* getValsForCreateCapabilityError, lines 159-171: *req.Name is dereferenced
\* without a nil check
getValsForCreateCapabilityError(rq, rt, field, tag) ==
    IF field = "name" /\ tag = "required"
    THEN IF rq.Name = Nil
         THEN [panic |-> TRUE, vals |-> <<>>]
         ELSE [panic |-> FALSE, vals |-> <<RequiredMessage(rt), Deref(rq.Name)>>]
    ELSE [panic |-> FALSE, vals |-> <<>>]

\* wscutils.WscValidate over the struct tags of lines 18-21: the only rule
\* is Name's "required"; Attributes carries no rule
WscValidate(rq, rt, tags) ==
    IF hasValue(rq.Name)
    THEN [panic |-> FALSE, errors |-> <<>>]
    ELSE LET g == getValsForCreateCapabilityError(rq, rt, FieldName(tags), "required")
         IN  IF g.panic
             THEN [panic |-> TRUE, errors |-> <<>>]
             ELSE [panic |-> FALSE,
                   errors |-> <<BuildErrorMessage("required", Ptr(FieldName(tags)), g.vals)>>]

validateCreateCapability(rq, rt, tags) == WscValidate(rq, rt, tags)

-----------------------------------------------------------------------------
(* Classification of a createGroup error, lines 104-123 *)

UnauthorizedErr == "401 Unauthorized: HTTP 401 Unauthorized"

\* fmt.Sprintf of line 107
conflictErr(name) ==
    "409 Conflict: Top level group named '" \o name \o "' already exists."

\* a classifier that takes any 409 Conflict text for a name conflict
ClassifyAnyConflict(e, name) ==
    IF e = UnauthorizedErr THEN "Unauthorized"
    ELSE IF HasPrefix(e, "409 Conflict") THEN "name already exist"
    ELSE "unknown"

\* a classifier that passes an unmatched error text on as the code
ClassifyForwardsText(e, name) ==
    IF e = UnauthorizedErr THEN "Unauthorized"
    ELSE IF e = conflictErr(name) THEN "name already exist"
    ELSE e

\* the switch of lines 109-122: the errcode sent
ClassifyCreateError(e, name) ==
    IF e = UnauthorizedErr THEN "Unauthorized"
    ELSE IF e = conflictErr(name) THEN "name already exist"
    ELSE "unknown"

-----------------------------------------------------------------------------
(* Response of the success path, lines 132-140 *)

\* *groupInfo.ID and *groupInfo.Name are dereferenced without a nil check
ComposePanics(g) == g.ID = Nil \/ g.Name = Nil

\* a composer that derives the path from the name when the provider has none
CreateCapabilityResponseDerivesPath(g) ==
    [ID |-> Deref(g.ID), Name |-> Deref(g.Name),
     Path |-> IF g.Path = Nil THEN Ptr("/" \o Deref(g.Name)) ELSE g.Path,
     Attributes |-> g.Attributes]

CreateCapabilityResponse(g) ==
    [ID |-> Deref(g.ID), Name |-> Deref(g.Name), Path |-> g.Path,
     Attributes |-> g.Attributes]

\* the capability handler leaves Status unset (line 140 of
\* create_capability.go); the group handler sets it (line 139 of
\* grouphandler.go)
SuccessEnvelope(rt, data) ==
    IF rt = "capability"
    THEN NewResponse("", Ptr(data), <<>>)
    ELSE NewResponse(SuccessStatus, Ptr(data), <<>>)

-----------------------------------------------------------------------------
(* The identity provider and the bounded-time context *)

\* s.Dependencies["realm"], registered in main
Realm == "realm1"

\* context.WithTimeout(c, 10*time.Second), line 93
Timeout == 10

\* seconds a provider call may take
Durations == {1, 6, 11}

\* a context that gives every call its own 10 seconds
DeadlinePassedPerCall(e, d) == d >= Timeout

\* ctx is derived once, before createGroup (line 93), and passed to both
\* calls (lines 103 and 126): a call that needs d seconds when e seconds of
\* ctx have passed runs into the deadline when e + d reaches the timeout
DeadlinePassed(e, d) == e + d >= Timeout

IdOf(k) == "g-" \o ToString(k)

\* a group that exists before the request arrives
ExistingGroup ==
    [ID |-> Ptr("g-0"), Name |-> Ptr("Admins"), Path |-> Ptr("/Admins"), Attributes |-> Nil]

\* gocloak's error when the context deadline passes during a call
DeadlineErr(op) == "could not " \o op \o ": context deadline exceeded"

\* error texts the provider may answer a createGroup with
CreateErrors ==
    {UnauthorizedErr, "401 Unauthorized", "500 Internal Server Error",
     "409 Conflict: Top level group named 'Admins' already exists"}
    \cup {conflictErr(n) : n \in Names}

\* error texts the provider may answer a getGroup with
GetErrors == {UnauthorizedErr, "404 Not Found: Could not find group by id"}

NameTaken(n) == \E g \in groups : g.Name = Ptr(n)

\* the rejection of a duplicate top-level name
DuplicateErrors(n) == IF NameTaken(n) THEN {conflictErr(n)} ELSE {}

\* gocloak's error when ctx is cancelled during a call
CanceledErr(op) == "could not " \o op \o ": context canceled"

\* the group the provider stores for a created group: it assigns the id and
\* decides path and attributes
StoredGroups(k, g) ==
    {[ID |-> Ptr(IdOf(k)), Name |-> g.Name, Path |-> p, Attributes |-> a] :
        p \in {Nil, Ptr("/" \o Deref(g.Name))},
        a \in {Nil, g.Attributes, Ptr(ProviderAttrs)}}

\* what a getGroup reply may carry for a stored group: the group, possibly
\* with id or name missing from the JSON
GetReplies(g) == {g, [g EXCEPT !.ID = Nil], [g EXCEPT !.Name = Nil]}

\* the provider as the environment of a run: how long it takes, which errors
\* it answers with, and whether it stores and returns a group in every
\* variant or only as asked
FullProvider ==
    [durations |-> Durations, createErrors |-> CreateErrors, getErrors |-> GetErrors,
     variants |-> TRUE]

\* a provider that answers in time, rejects credentials or duplicates, and
\* stores a group as asked
PlainProvider ==
    [durations |-> {1}, createErrors |-> {UnauthorizedErr},
     getErrors |-> {"404 Not Found: Could not find group by id"}, variants |-> FALSE]

StoredGroupsBy(p, k, g) ==
    IF p.variants THEN StoredGroups(k, g)
    ELSE {[ID |-> Ptr(IdOf(k)), Name |-> g.Name, Path |-> Ptr("/" \o Deref(g.Name)),
           Attributes |-> g.Attributes]}

GetRepliesBy(p, g) == IF p.variants THEN GetReplies(g) ELSE {g}

-----------------------------------------------------------------------------
(* State *)

\* handler variables kept in package-level state, which every request shares
SetShared(f, r, v) == [q \in DOMAIN f |-> v]

Set(f, r, v) == [f EXCEPT ![r] = v]

Append1(f, r, v) == [f EXCEPT ![r] = Append(@, v)]

\* a provider call as the gateway sees it: the arguments (group for
\* createGroup, id for getGroup) and, once returned, the reply
Call(op, tk, g, id) ==
    [op |-> op, token |-> tk, realm |-> Realm, group |-> g, id |-> id,
     returned |-> FALSE, needed |-> 0, err |-> Nil, newID |-> "", info |-> Nil]

\* the last call of request r, with its reply filled in; d is the time the
\* provider needed, or would have needed, to answer
Replied(r, d, e, newID, info) ==
    [calls EXCEPT ![r][Len(calls[r])] =
        [@ EXCEPT !.returned = TRUE, !.needed = d, !.err = e, !.newID = newID,
                  !.info = info]]

Init ==
    /\ pc = [r \in ReqIds |-> "idle"]
    /\ route = [r \in ReqIds |-> "capability"]
    /\ header = [r \in ReqIds |-> NoHeader]
    /\ body = [r \in ReqIds |-> [json |-> "empty"]]
    /\ token = [r \in ReqIds |-> ""]
    /\ req = [r \in ReqIds |-> ZeroRequest]
    /\ elapsed = [r \in ReqIds |-> 0]
    /\ createdID = [r \in ReqIds |-> ""]
    /\ groupInfo = [r \in ReqIds |-> Nil]
    /\ err = [r \in ReqIds |-> Nil]
    /\ resp = [r \in ReqIds |-> <<>>]
    /\ calls = [r \in ReqIds |-> <<>>]
    /\ groups \in {{}, {ExistingGroup}}
    /\ nextId = 1
    /\ jsonTags \in BOOLEAN
    /\ ctx = [r \in ReqIds |-> "none"]
    /\ callerGone = [r \in ReqIds |-> FALSE]

-----------------------------------------------------------------------------
(* Actions *)

\* the router hands a request, drawn from the given routes, headers and
\* bodies, to its handler
ReceiveFrom(r, rts, hs, bs) ==
    /\ pc[r] = "idle"
    /\ \E rt \in rts, h \in hs, b \in bs :
        /\ route' = Set(route, r, rt)
        /\ header' = Set(header, r, h)
        /\ body' = Set(body, r, b)
    /\ pc' = Set(pc, r, "extract")
    /\ UNCHANGED <<token, req, elapsed, createdID, groupInfo, err, resp, calls,
                   groups, nextId, jsonTags, ctx, callerGone>>

\* the router hands a request to one of the two handlers
Receive(r) == ReceiveFrom(r, Routes, Headers, Bodies)

\* lines 41-47
ExtractTokenStep(r) ==
    /\ pc[r] = "extract"
    /\ LET x == ExtractToken(GetHeader(header[r]))
       IN  IF x.err # Nil
           THEN /\ resp' = Append1(resp, r, SentError(NewErrorResponse("token_missing")))
                /\ pc' = Set(pc, r, "done")
                /\ UNCHANGED token
           ELSE /\ token' = Set(token, r, x.token)
                /\ pc' = Set(pc, r, "bind")
                /\ UNCHANGED resp
    /\ UNCHANGED <<route, header, body, req, elapsed, createdID, groupInfo, err,
                   calls, groups, nextId, jsonTags, ctx, callerGone>>

\* lines 66-73
BindJSONStep(r) ==
    /\ pc[r] = "bind"
    /\ LET x == BindJSON(body[r])
       IN  IF x.err
           THEN /\ resp' = Append1(resp, r, SentError(NewErrorResponse("invalid_json")))
                /\ pc' = Set(pc, r, "done")
                /\ UNCHANGED req
           ELSE /\ req' = Set(req, r, x.req)
                /\ pc' = Set(pc, r, "validate")
                /\ UNCHANGED resp
    /\ UNCHANGED <<route, header, body, token, elapsed, createdID, groupInfo, err,
                   calls, groups, nextId, jsonTags, ctx, callerGone>>

\* a handler that goes on to the provider without validating the request
ValidateStepSkipped(r) ==
    /\ pc[r] = "validate"
    /\ pc' = Set(pc, r, "create")
    /\ UNCHANGED <<route, header, body, token, req, elapsed, createdID, groupInfo,
                   err, resp, calls, groups, nextId, jsonTags, ctx, callerGone>>

\* lines 78-85; a panic in getVals unwinds the handler
ValidateStep(r) ==
    /\ pc[r] = "validate"
    /\ LET v == validateCreateCapability(req[r], route[r], jsonTags)
       IN  IF v.panic
           THEN /\ pc' = Set(pc, r, "panicked")
                /\ UNCHANGED resp
           ELSE IF Len(v.errors) > 0
           THEN /\ resp' = Append1(resp, r,
                                   SentError(NewResponse(ErrorStatus, Nil, v.errors)))
                /\ pc' = Set(pc, r, "done")
           ELSE /\ pc' = Set(pc, r, "create")
                /\ UNCHANGED resp
    /\ UNCHANGED <<route, header, body, token, req, elapsed, createdID, groupInfo,
                   err, calls, groups, nextId, jsonTags, ctx, callerGone>>

\* a handler that enforces uniqueness itself: it answers a request whose name
\* another request in flight carries with the conflict code, without a call
CallCreateGroupUnlessPending(r) ==
    /\ pc[r] = "create"
    /\ IF \E q \in DOMAIN pc \ {r} :
            pc[q] \in {"creating", "created", "getting", "fetched"}
            /\ req[q].Name = req[r].Name
       THEN /\ resp' = Append1(resp, r, SentError(NewErrorResponse("name already exist")))
            /\ pc' = Set(pc, r, "done")
            /\ UNCHANGED <<elapsed, calls, ctx>>
       ELSE /\ elapsed' = Set(elapsed, r, 0)
            /\ LET group == [ID |-> Nil, Name |-> req[r].Name, Path |-> Nil,
                             Attributes |-> req[r].Attributes]
               IN  calls' = Append1(calls, r,
                                    Call("createGroup", token[r], Ptr(group), ""))
            /\ ctx' = Set(ctx, r, "live")
            /\ pc' = Set(pc, r, "creating")
            /\ UNCHANGED resp
    /\ UNCHANGED <<route, header, body, token, req, createdID, groupInfo, err,
                   groups, nextId, jsonTags, callerGone>>

\* lines 89-103: the dependencies are looked up, ctx is derived with the
\* 10 second timeout, and client.CreateGroup is called
CallCreateGroup(r) ==
    /\ pc[r] = "create"
    /\ elapsed' = Set(elapsed, r, 0)
    /\ LET group == [ID |-> Nil, Name |-> req[r].Name, Path |-> Nil,
                     Attributes |-> req[r].Attributes]
       IN  calls' = Append1(calls, r, Call("createGroup", token[r], Ptr(group), ""))
    /\ ctx' = Set(ctx, r, "live")
    /\ pc' = Set(pc, r, "creating")
    /\ UNCHANGED <<route, header, body, token, req, createdID, groupInfo, err, resp,
                   groups, nextId, jsonTags, callerGone>>

\* client.CreateGroup returns: ctx was cancelled, or its deadline passed, or
\* the provider answered with an error (always so for a duplicate top-level
\* name), or it created the group and answered with the new id
CreateGroupReturnsFrom(r, p) ==
    /\ pc[r] = "creating"
    /\ IF ctx[r] = "cancelled"
       THEN /\ err' = Set(err, r, Ptr(CanceledErr("create group")))
            /\ calls' = Replied(r, 0, Ptr(CanceledErr("create group")), "", Nil)
            /\ UNCHANGED <<elapsed, createdID, groups, nextId>>
       ELSE \E d \in p.durations :
        IF DeadlinePassed(elapsed[r], d)
        THEN /\ elapsed' = Set(elapsed, r, Timeout)
             /\ err' = Set(err, r, Ptr(DeadlineErr("create group")))
             /\ calls' = Replied(r, d, Ptr(DeadlineErr("create group")), "", Nil)
             /\ UNCHANGED <<createdID, groups, nextId>>
        ELSE /\ elapsed' = Set(elapsed, r, elapsed[r] + d)
             /\ \/ \E e \in p.createErrors \cup DuplicateErrors(Deref(req[r].Name)) :
                      /\ err' = Set(err, r, Ptr(e))
                      /\ calls' = Replied(r, d, Ptr(e), "", Nil)
                      /\ UNCHANGED <<createdID, groups, nextId>>
                \/ /\ ~NameTaken(Deref(req[r].Name))
                   /\ \E g \in StoredGroupsBy(p, nextId,
                                               Deref(calls[r][Len(calls[r])].group)) :
                        groups' = groups \cup {g}
                   /\ nextId' = nextId + 1
                   /\ createdID' = Set(createdID, r, IdOf(nextId))
                   /\ err' = Set(err, r, Nil)
                   /\ calls' = Replied(r, d, Nil, IdOf(nextId), Nil)
    /\ pc' = Set(pc, r, "created")
    /\ UNCHANGED <<route, header, body, token, req, groupInfo, resp, jsonTags, ctx,
                   callerGone>>

CreateGroupReturns(r) == CreateGroupReturnsFrom(r, FullProvider)

\* a handler that goes on to client.GetGroup whatever createGroup returned
AfterCreateGroupIgnoresError(r) ==
    /\ pc[r] = "created"
    /\ calls' = Append1(calls, r, Call("getGroup", token[r], Nil, createdID[r]))
    /\ pc' = Set(pc, r, "getting")
    /\ UNCHANGED <<route, header, body, token, req, elapsed, createdID, groupInfo,
                   err, resp, groups, nextId, jsonTags, ctx, callerGone>>

\* lines 104-126: a createGroup error is classified and answered, and the
\* deferred cancel of line 94 runs; otherwise client.GetGroup is called with
\* the id createGroup returned
AfterCreateGroup(r) ==
    /\ pc[r] = "created"
    /\ IF err[r] # Nil
       THEN /\ resp' = Append1(resp, r, SentError(NewErrorResponse(
                           ClassifyCreateError(Deref(err[r]), Deref(req[r].Name)))))
            /\ pc' = Set(pc, r, "done")
            /\ ctx' = Set(ctx, r, "cancelled")
            /\ UNCHANGED calls
       ELSE /\ calls' = Append1(calls, r, Call("getGroup", token[r], Nil, createdID[r]))
            /\ pc' = Set(pc, r, "getting")
            /\ UNCHANGED <<resp, ctx>>
    /\ UNCHANGED <<route, header, body, token, req, elapsed, createdID, groupInfo,
                   err, groups, nextId, jsonTags, callerGone>>

\* client.GetGroup returns: ctx was cancelled, or the deadline of the same
\* ctx passed, or the provider answered with an error, or with the group of
\* that id
GetGroupReturnsFrom(r, p) ==
    /\ pc[r] = "getting"
    /\ IF ctx[r] = "cancelled"
       THEN /\ err' = Set(err, r, Ptr(CanceledErr("get group")))
            /\ calls' = Replied(r, 0, Ptr(CanceledErr("get group")), "", Nil)
            /\ UNCHANGED <<elapsed, groupInfo>>
       ELSE \E d \in p.durations :
        IF DeadlinePassed(elapsed[r], d)
        THEN /\ elapsed' = Set(elapsed, r, Timeout)
             /\ err' = Set(err, r, Ptr(DeadlineErr("get group")))
             /\ calls' = Replied(r, d, Ptr(DeadlineErr("get group")), "", Nil)
             /\ UNCHANGED groupInfo
        ELSE /\ elapsed' = Set(elapsed, r, elapsed[r] + d)
             /\ \/ \E e \in p.getErrors :
                      /\ err' = Set(err, r, Ptr(e))
                      /\ calls' = Replied(r, d, Ptr(e), "", Nil)
                      /\ UNCHANGED groupInfo
                \/ \E g \in groups : \E i \in GetRepliesBy(p, g) :
                      /\ g.ID = Ptr(calls[r][Len(calls[r])].id)
                      /\ groupInfo' = Set(groupInfo, r, Ptr(i))
                      /\ err' = Set(err, r, Nil)
                      /\ calls' = Replied(r, d, Nil, "", Ptr(i))
    /\ pc' = Set(pc, r, "fetched")
    /\ UNCHANGED <<route, header, body, token, req, createdID, resp, groups, nextId,
                   jsonTags, ctx, callerGone>>

GetGroupReturns(r) == GetGroupReturnsFrom(r, FullProvider)

\* lines 127-143: on a getGroup error the handler returns without writing
\* anything; otherwise the response is built from groupInfo and sent; the
\* deferred cancel of line 94 runs on return and on a panic
AfterGetGroup(r) ==
    /\ pc[r] = "fetched"
    /\ IF err[r] # Nil
       THEN /\ pc' = Set(pc, r, "done")
            /\ UNCHANGED resp
       ELSE IF ComposePanics(Deref(groupInfo[r]))
       THEN /\ pc' = Set(pc, r, "panicked")
            /\ UNCHANGED resp
       ELSE /\ resp' = Append1(resp, r, SentSuccess(SuccessEnvelope(route[r],
                           CreateCapabilityResponse(Deref(groupInfo[r])))))
            /\ pc' = Set(pc, r, "done")
    /\ ctx' = Set(ctx, r, "cancelled")
    /\ UNCHANGED <<route, header, body, token, req, elapsed, createdID, groupInfo,
                   err, calls, groups, nextId, jsonTags, callerGone>>

\* gin's Engine.ContextWithFallback, which main.go leaves at its default:
\* only when it is set does gin.Context.Done() return the inbound request's
\* channel; otherwise it returns nil
ContextWithFallback == FALSE

\* the caller abandons the inbound request while a provider call is in
\* flight: ctx, derived from the gin context c at line 93, is cancelled with
\* it only if c.Done() propagates the request's cancellation
CallerCancels(r) ==
    /\ pc[r] \in {"creating", "getting"}
    /\ ~callerGone[r]
    /\ callerGone' = Set(callerGone, r, TRUE)
    /\ ctx' = IF ContextWithFallback THEN Set(ctx, r, "cancelled") ELSE ctx
    /\ UNCHANGED <<pc, route, header, body, token, req, elapsed, createdID, groupInfo,
                   err, resp, calls, groups, nextId, jsonTags>>

-----------------------------------------------------------------------------
(* Specification: one request, served by either handler *)

Solo == {1}

Next ==
    \E r \in Solo :
        \/ Receive(r)
        \/ ExtractTokenStep(r)
        \/ BindJSONStep(r)
        \/ ValidateStep(r)
        \/ CallCreateGroup(r)
        \/ CreateGroupReturns(r)
        \/ AfterCreateGroup(r)
        \/ GetGroupReturns(r)
        \/ AfterGetGroup(r)
        \/ CallerCancels(r)

Spec == Init /\ [][Next]_vars

-----------------------------------------------------------------------------
(* Specification: requests served concurrently, as main.go serves them *)

\* the requests of a concurrent run: two tokens, two names, with or without
\* attributes, and a body that does not decode
ConcHeaders == {Ptr("Bearer tok1"), Ptr("Bearer tok2")}
ConcBodies ==
    {[json |-> "malformed"],
     [json |-> "object", name |-> JString("Admins"), attributes |-> JAbsent],
     [json |-> "object", name |-> JString("Ops"), attributes |-> JMap(ReqAttrs)]}

\* main.go registers /capability-create only (line 115)
ReceiveConc(r) == ReceiveFrom(r, {"capability"}, ConcHeaders, ConcBodies)

CreateGroupReturnsPlain(r) == CreateGroupReturnsFrom(r, PlainProvider)
GetGroupReturnsPlain(r) == GetGroupReturnsFrom(r, PlainProvider)

\* the realm starts empty
InitConc == Init /\ groups = {} /\ jsonTags

\* gin runs each handler in the goroutine of its connection: the steps of
\* the requests interleave freely
NextConc ==
    \E r \in ReqIds :
        \/ ReceiveConc(r)
        \/ ExtractTokenStep(r)
        \/ BindJSONStep(r)
        \/ ValidateStep(r)
        \/ CallCreateGroup(r)
        \/ CreateGroupReturnsPlain(r)
        \/ AfterCreateGroup(r)
        \/ GetGroupReturnsPlain(r)
        \/ AfterGetGroup(r)

SpecConc == InitConc /\ [][NextConc]_vars

-----------------------------------------------------------------------------
(* Specification: the two handlers side by side.  Request 1 is served by    *)
(* HandleCapabilityCreateRequest; request 2 then carries the same header    *)
(* and body to HandleGroupCreationRequest, and the provider answers its     *)
(* calls as it answered those of request 1.                                 *)

Original == 1
Twin == 2

ReceiveCapability(r) == ReceiveFrom(r, {"capability"}, Headers, Bodies)

\* the same header and body arrive on the group route
ReceiveTwin(r, o) ==
    /\ pc[r] = "idle"
    /\ pc[o] \in {"done", "panicked"}
    /\ route' = Set(route, r, "group")
    /\ header' = Set(header, r, header[o])
    /\ body' = Set(body, r, body[o])
    /\ pc' = Set(pc, r, "extract")
    /\ UNCHANGED <<token, req, elapsed, createdID, groupInfo, err, resp, calls,
                   groups, nextId, jsonTags, ctx, callerGone>>

\* client.CreateGroup returns to request r what it returned to request o
CreateGroupReplayed(r, o) ==
    /\ pc[r] = "creating"
    /\ Len(calls[o]) >= 1 /\ calls[o][1].op = "createGroup"
    /\ LET c == calls[o][1]
       IN  /\ elapsed' = Set(elapsed, r, IF DeadlinePassed(elapsed[r], c.needed)
                                         THEN Timeout ELSE elapsed[r] + c.needed)
           /\ err' = Set(err, r, c.err)
           /\ createdID' = IF c.err = Nil THEN Set(createdID, r, c.newID) ELSE createdID
           /\ calls' = Replied(r, c.needed, c.err, c.newID, Nil)
    /\ pc' = Set(pc, r, "created")
    /\ UNCHANGED <<route, header, body, token, req, groupInfo, resp, groups, nextId,
                   jsonTags, ctx, callerGone>>

\* client.GetGroup returns to request r what it returned to request o
GetGroupReplayed(r, o) ==
    /\ pc[r] = "getting"
    /\ Len(calls[o]) >= 2 /\ calls[o][2].op = "getGroup"
    /\ LET c == calls[o][2]
       IN  /\ elapsed' = Set(elapsed, r, IF DeadlinePassed(elapsed[r], c.needed)
                                         THEN Timeout ELSE elapsed[r] + c.needed)
           /\ err' = Set(err, r, c.err)
           /\ groupInfo' = IF c.err = Nil THEN Set(groupInfo, r, c.info) ELSE groupInfo
           /\ calls' = Replied(r, c.needed, c.err, "", c.info)
    /\ pc' = Set(pc, r, "fetched")
    /\ UNCHANGED <<route, header, body, token, req, createdID, resp, groups, nextId,
                   jsonTags, ctx, callerGone>>

NextTwin ==
    \/ ReceiveCapability(Original)
    \/ CreateGroupReturns(Original)
    \/ GetGroupReturns(Original)
    \/ ReceiveTwin(Twin, Original)
    \/ CreateGroupReplayed(Twin, Original)
    \/ GetGroupReplayed(Twin, Original)
    \/ \E r \in {Original, Twin} :
        \/ ExtractTokenStep(r)
        \/ BindJSONStep(r)
        \/ ValidateStep(r)
        \/ CallCreateGroup(r)
        \/ AfterCreateGroup(r)
        \/ AfterGetGroup(r)

SpecTwin == Init /\ [][NextTwin]_vars

-----------------------------------------------------------------------------
(* Properties *)

\* the handler run of request r has ended, by returning or by a panic
Finished(r) == pc[r] \in {"done", "panicked"}

\* the Authorization header carries the scheme "Bearer "
ValidBearer(h) == h # NoHeader /\ HasPrefix(Deref(h), "Bearer ")

\* exactly one envelope was sent, an error envelope with exactly one message
OneErrorMessage(r) ==
    /\ Len(resp[r]) = 1
    /\ resp[r][1].kind = "error"
    /\ resp[r][1].envelope.status = "error"
    /\ Len(resp[r][1].envelope.messages) = 1

\* ... whose code is code and which names no field and carries no vals
OneErrorResponse(r, code) ==
    /\ OneErrorMessage(r)
    /\ resp[r][1].envelope.messages[1] = [field |-> Nil, errcode |-> code, vals |-> <<>>]

\* C1: a request whose Authorization header is absent, empty or not prefixed
\* with the case-sensitive "Bearer " is answered with token_missing and makes
\* no provider call, whatever its body and whichever handler serves it.
C1_TokenMissingNoProviderCall ==
    \A r \in ReqIds :
        (pc[r] \notin {"idle", "extract"} /\ ~ValidBearer(header[r]))
            => /\ pc[r] = "done"
               /\ OneErrorResponse(r, "token_missing")
               /\ calls[r] = <<>>

\* a lower-case scheme with an otherwise valid body was answered
C1_Witness ==
    \E r \in ReqIds :
        /\ pc[r] = "done"
        /\ header[r] = Ptr("bearer tok1")
        /\ body[r] = [json |-> "object", name |-> JString("Admins"), attributes |-> JAbsent]
        /\ OneErrorResponse(r, "token_missing")

\* a well-formed JSON object whose name is absent or the empty string
NameAbsentOrEmpty(b) ==
    /\ b.json = "object"
    /\ b.name \in {JAbsent, JString("")}
    /\ b.attributes.t \in {"absent", "null", "map"}

\* C2: a request with a valid bearer header and a well-formed body whose name
\* is absent or empty is answered with exactly one validation error, field
\* "name" and code "required", and makes no provider call.
C2_NameRequired ==
    \A r \in ReqIds :
        (/\ pc[r] \notin {"idle", "extract", "bind", "validate"}
         /\ ValidBearer(header[r])
         /\ NameAbsentOrEmpty(body[r]))
            => /\ pc[r] = "done"
               /\ OneErrorMessage(r)
               /\ resp[r][1].envelope.messages[1].field = Ptr("name")
               /\ resp[r][1].envelope.messages[1].errcode = "required"
               /\ calls[r] = <<>>

\* createGroup succeeded and the getGroup that followed failed
GetFailedAfterCreate(r) ==
    /\ Len(calls[r]) = 2
    /\ calls[r][1].op = "createGroup" /\ calls[r][1].returned /\ calls[r][1].err = Nil
    /\ calls[r][2].op = "getGroup" /\ calls[r][2].returned /\ calls[r][2].err # Nil

\* C3: when getGroup fails after a successful createGroup, the request ends
\* with a structured error response (status "error", exactly one message),
\* never without a response.
C3_FetchFailureAnswered ==
    \A r \in ReqIds :
        (Finished(r) /\ GetFailedAfterCreate(r)) => OneErrorMessage(r)

\* C4: a handler run that returned has sent exactly one envelope, and on a
\* failure path that envelope has status "error" and exactly one message.
C4_ExactlyOneEnvelope ==
    \A r \in ReqIds :
        pc[r] = "done"
            => /\ Len(resp[r]) = 1
               /\ resp[r][1].kind = "error" => OneErrorMessage(r)

\* createGroup and getGroup both succeeded
BothCallsSucceeded(r) ==
    /\ Len(calls[r]) = 2
    /\ calls[r][1].op = "createGroup" /\ calls[r][1].returned /\ calls[r][1].err = Nil
    /\ calls[r][2].op = "getGroup" /\ calls[r][2].returned /\ calls[r][2].err = Nil

\* C5: when both provider calls succeed the envelope sent has status
\* "success" and no messages, on the capability route and on the group route.
C5_SuccessStatus ==
    \A r \in ReqIds :
        (pc[r] = "done" /\ BothCallsSucceeded(r))
            => /\ Len(resp[r]) = 1
               /\ resp[r][1].envelope.status = "success"
               /\ resp[r][1].envelope.messages = <<>>

\* createGroup, the only call made, failed
CreateFailed(r) ==
    /\ Len(calls[r]) = 1
    /\ calls[r][1].op = "createGroup" /\ calls[r][1].returned /\ calls[r][1].err # Nil

\* the raw error text of the failed createGroup and the name the body carries
RawError(r) == Deref(calls[r][1].err)
SubmittedName(r) == body[r].name.s

\* the taxonomy entry an errcode of the handlers stands for
KindOfCode(code) ==
    IF code = "Unauthorized" THEN "Unauthorized"
    ELSE IF code = "name already exist" THEN "NameConflict"
    ELSE IF code = "unknown" THEN "Unknown"
    ELSE "other"

\* the entry the priority order of the contract gives for text e and name n
KindByPriority(e, n) ==
    IF e = "401 Unauthorized: HTTP 401 Unauthorized" THEN "Unauthorized"
    ELSE IF e = "409 Conflict: Top level group named '" \o n \o "' already exists."
    THEN "NameConflict"
    ELSE "Unknown"

\* C6: every createGroup failure with raw text e on a request with name n is
\* answered, with exactly one message, whose kind is Unauthorized if e is the
\* 401 text, else NameConflict if e is the conflict text for n, else Unknown;
\* the kind is a function of (e, n) and no text leaves the request unanswered.
C6_ClassifiedByPriority ==
    \A r \in ReqIds :
        (pc[r] \notin {"idle", "extract", "bind", "validate", "create", "creating", "created"}
         /\ CreateFailed(r))
            => /\ pc[r] = "done"
               /\ OneErrorMessage(r)
               /\ KindOfCode(resp[r][1].envelope.messages[1].errcode)
                     = KindByPriority(RawError(r), SubmittedName(r))

\* a conflict text for another name than the submitted one was answered Unknown
C6_Witness ==
    \E r \in ReqIds :
        /\ pc[r] = "done" /\ CreateFailed(r)
        /\ SubmittedName(r) = "Admins"
        /\ RawError(r) = "409 Conflict: Top level group named 'Ops' already exists."
        /\ OneErrorResponse(r, "unknown")

\* a provider call of request r ran into the 10 second deadline
TimedOut(r) ==
    /\ Len(calls[r]) > 0
    /\ calls[r][Len(calls[r])].returned
    /\ calls[r][Len(calls[r])].err # Nil
    /\ elapsed[r] >= Timeout

\* C7: a provider call that exceeds the 10 second timeout is answered with
\* exactly one message of code provider_timeout, distinct from Unknown.
C7_ProviderTimeout ==
    \A r \in ReqIds :
        (Finished(r) /\ TimedOut(r)) => OneErrorResponse(r, "provider_timeout")

\* C8: on a successful creation the response data are exactly the fields of
\* the group that getGroup returned for the id createGroup returned: id, name,
\* path and attributes, a nil path or nil attributes included.
C8_RoundTrip ==
    \A r \in ReqIds :
        (Len(resp[r]) > 0 /\ resp[r][1].kind = "success")
            => /\ Len(resp[r]) = 1
               /\ BothCallsSucceeded(r)
               /\ calls[r][2].id = calls[r][1].newID
               /\ calls[r][2].info # Nil
               /\ LET g == Deref(calls[r][2].info)
                      d == Deref(resp[r][1].envelope.data)
                  IN  /\ g.ID = Ptr(d.ID)
                      /\ g.Name = Ptr(d.Name)
                      /\ g.Path = d.Path
                      /\ g.Attributes = d.Attributes

\* a success whose attributes are the provider's, not the request's, and
\* whose path is nil
C8_Witness ==
    \E r \in ReqIds :
        /\ pc[r] = "done" /\ Len(resp[r]) = 1 /\ resp[r][1].kind = "success"
        /\ req[r].Attributes = Ptr(ReqAttrs)
        /\ Deref(resp[r][1].envelope.data).Attributes = Ptr(ProviderAttrs)
        /\ Deref(resp[r][1].envelope.data).Path = Nil

\* createGroup failed with the conflict text for the submitted name
ConflictForSubmittedName(r) ==
    /\ CreateFailed(r)
    /\ RawError(r) = "409 Conflict: Top level group named '" \o SubmittedName(r)
                        \o "' already exists."

\* C9: a createGroup failure with the conflict text for the submitted name is
\* answered with exactly one message of code name_already_exist, and getGroup
\* is not called.
C9_NameConflictCode ==
    \A r \in ReqIds :
        (Finished(r) /\ ConflictForSubmittedName(r))
            => /\ OneErrorResponse(r, "name_already_exist")
               /\ Len(calls[r]) = 1

\* the body is not well-formed JSON, or JSON that does not map onto the
\* request: not an object, or a field of the wrong JSON type
Undecodable(b) ==
    \/ b.json \in {"empty", "malformed", "array"}
    \/ b.json = "object" /\ (b.name.t = "number" \/ b.attributes.t = "string")

\* C10: a request with a valid bearer header and an undecodable body is
\* answered with invalid_json before validation: the one message names no
\* field, and no provider call is made.
C10_InvalidBodyBeforeValidation ==
    \A r \in ReqIds :
        (pc[r] \notin {"idle", "extract", "bind"}
         /\ ValidBearer(header[r]) /\ Undecodable(body[r]))
            => /\ pc[r] = "done"
               /\ OneErrorResponse(r, "invalid_json")
               /\ calls[r] = <<>>

\* a body with a numeric name, which would also fail validation, was
\* answered with invalid_json
C10_Witness ==
    \E r \in ReqIds :
        /\ pc[r] = "done"
        /\ header[r] = Ptr("Bearer tok1")
        /\ body[r] = [json |-> "object", name |-> JNumber, attributes |-> JAbsent]
        /\ OneErrorResponse(r, "invalid_json")


\* the code the handlers send for a taxonomy entry
CodeOfKind(kind) ==
    IF kind = "Unauthorized" THEN "Unauthorized"
    ELSE IF kind = "NameConflict" THEN "name already exist"
    ELSE "unknown"

\* the error envelope that carries nothing but a code
BareError(code) ==
    [kind |-> "error",
     envelope |-> [status |-> "error", data |-> Nil,
                   messages |-> <<[field |-> Nil, errcode |-> code, vals |-> <<>>]>>]]

\* C11: what is sent after a createGroup failure is a function of the kind the
\* raw error text classifies to and of nothing else of the text: two texts of
\* the same kind give identical responses, and the text is never sent.
C11_ResponseFromKindOnly ==
    \A r \in ReqIds :
        (pc[r] = "done" /\ CreateFailed(r))
            => resp[r] = <<BareError(CodeOfKind(KindByPriority(RawError(r), SubmittedName(r))))>>

\* two different texts of kind Unknown are possible for the request answered
\* here: a server error was answered with the bare unknown code
C11_Witness ==
    \E r \in ReqIds :
        /\ pc[r] = "done" /\ CreateFailed(r)
        /\ RawError(r) = "500 Internal Server Error"
        /\ KindByPriority("401 Unauthorized", SubmittedName(r)) = "Unknown"
        /\ resp[r] = <<BareError("unknown")>>

\* C12: a run calls createGroup at most once and getGroup at most once and
\* retries nothing; getGroup is called if and only if createGroup succeeded,
\* after it, with the id it returned and the same token and realm.
C12_AtMostTwoCallsInOrder ==
    \A r \in ReqIds :
        /\ Len(calls[r]) <= 2
        /\ Len(calls[r]) >= 1 => calls[r][1].op = "createGroup"
        /\ Len(calls[r]) = 2 =>
              /\ calls[r][2].op = "getGroup"
              /\ calls[r][1].returned /\ calls[r][1].err = Nil
              /\ calls[r][2].id = calls[r][1].newID
              /\ calls[r][2].token = calls[r][1].token
              /\ calls[r][2].realm = calls[r][1].realm
        /\ (Len(calls[r]) = 1 /\ calls[r][1].returned /\ calls[r][1].err = Nil)
              => pc[r] = "created"
        /\ (Finished(r) /\ Len(calls[r]) = 1) => calls[r][1].err # Nil

\* a run that ended after a successful createGroup and a getGroup for its id
C12_Witness ==
    \E r \in ReqIds :
        /\ pc[r] = "done" /\ BothCallsSucceeded(r)
        /\ calls[r][2].id = "g-1" /\ calls[r][1].newID = "g-1"


\* the stages in the order of the pipeline; a run ends at rank 9
Rank(p) ==
    CASE p = "idle" -> 0
      [] p = "extract" -> 1
      [] p = "bind" -> 2
      [] p = "validate" -> 3
      [] p = "create" -> 4
      [] p = "creating" -> 5
      [] p = "created" -> 6
      [] p = "getting" -> 7
      [] p = "fetched" -> 8
      [] OTHER -> 9

\* the body carries a name the validator accepts as present
NamePresent(b) == b.json = "object" /\ b.name.t = "string"

\* a stage is reached only when every earlier stage succeeded, and a request
\* with several defects is answered for the earliest one
StagesGuarded ==
    \A r \in ReqIds :
        /\ (Rank(pc[r]) \in 2..8) => ValidBearer(header[r])
        /\ (Rank(pc[r]) \in 3..8) => ~Undecodable(body[r])
        /\ (Rank(pc[r]) \in 4..8) => NamePresent(body[r])
        /\ (Rank(pc[r]) \in 7..8) => (calls[r][1].returned /\ calls[r][1].err = Nil)
        /\ calls[r] # <<>> =>
              (ValidBearer(header[r]) /\ ~Undecodable(body[r]) /\ NamePresent(body[r]))
        /\ (Finished(r) /\ ~ValidBearer(header[r]))
              => resp[r] = <<BareError("token_missing")>>
        /\ (Finished(r) /\ ValidBearer(header[r]) /\ Undecodable(body[r]))
              => resp[r] = <<BareError("invalid_json")>>

\* every step of a run moves it to a later stage
StagesAdvance ==
    \A r \in ReqIds : pc'[r] # pc[r] => Rank(pc'[r]) > Rank(pc[r])

\* C13: the stages run in the order token extraction, body decoding, field
\* validation, createGroup, getGroup, response; a stage runs only if all
\* earlier ones succeeded, the earliest failing stage is the one reported, and
\* no stage is revisited.
C13_StagesInOrder == []StagesGuarded /\ [][StagesAdvance]_vars

\* a request with no token, undecodable attributes and an empty name was
\* answered for the token
C13_Witness ==
    \E r \in ReqIds :
        /\ pc[r] = "done"
        /\ header[r] = NoHeader
        /\ body[r] = [json |-> "object", name |-> JString(""), attributes |-> JString("x")]
        /\ resp[r] = <<BareError("token_missing")>>


\* getGroup ran into the deadline of ctx
GetTimedOut(r) ==
    /\ Len(calls[r]) = 2 /\ calls[r][2].returned
    /\ calls[r][2].err = Ptr("could not get group: context deadline exceeded")

-----------------------------------------------------------------------------
(* Cancellation *)

\* a provider call of request r is in flight
InFlight(r) == pc[r] \in {"creating", "getting"}

\* the handler of request r has returned (or panicked) after creating ctx
ReturnedWithCtx(r) == pc[r] \in {"done", "panicked"} /\ ctx[r] # "none"

\* C15: once the caller has cancelled the inbound request while createGroup
\* or getGroup is in flight, the derived context is cancelled, and the call
\* in flight ends aborted by that cancellation; and the derived context is
\* cancelled whenever the handler has returned after creating it
C15_CallerCancelAborts ==
    \A r \in ReqIds :
        /\ callerGone[r] /\ InFlight(r) => ctx[r] = "cancelled"
        /\ callerGone[r] /\ pc[r] \in {"created", "fetched"}
              => \E op \in {"create group", "get group"} :
                    err[r] = Ptr(CanceledErr(op))
        /\ ReturnedWithCtx(r) => ctx[r] = "cancelled"

\* the part of C15 the deferred cancel guarantees
C15_CancelledOnReturn == \A r \in ReqIds : ReturnedWithCtx(r) => ctx[r] = "cancelled"


-----------------------------------------------------------------------------
(* Concurrent requests *)

\* everything a handler run holds: its gin context and its local variables
OwnLocals(q) ==
    <<pc[q], route[q], header[q], body[q], token[q], req[q], elapsed[q], createdID[q],
      groupInfo[q], err[q], resp[q], calls[q], ctx[q], callerGone[q]>>

\* a step is a step of one request and leaves what the others hold, and the
\* shared dependencies, as they were
StepIsLocal ==
    /\ \E r \in ReqIds : \A q \in ReqIds \ {r} : OwnLocals(q)' = OwnLocals(q)
    /\ jsonTags' = jsonTags

BearerToken(h) == SubSeq(Deref(h), Len("Bearer ") + 1, Len(Deref(h)))

BodyAttributes(b) == IF b.attributes.t = "map" THEN Ptr(b.attributes.m) ELSE Nil

\* the provider calls of request r carry its own token, name and attributes
\* and the id its own createGroup returned
OwnCalls(r) ==
    /\ Len(calls[r]) <= 2
    /\ Len(calls[r]) >= 1 =>
         /\ calls[r][1].op = "createGroup"
         /\ calls[r][1].token = BearerToken(header[r])
         /\ calls[r][1].realm = Realm
         /\ calls[r][1].group = Ptr([ID |-> Nil, Name |-> Ptr(SubmittedName(r)),
                                     Path |-> Nil, Attributes |-> BodyAttributes(body[r])])
    /\ Len(calls[r]) = 2 =>
         /\ calls[r][2].op = "getGroup"
         /\ calls[r][2].token = BearerToken(header[r])
         /\ calls[r][2].realm = Realm
         /\ calls[r][2].id = calls[r][1].newID

\* what request r is answered with, as a function of its route, header and
\* body and of the replies to its calls (no answer is the empty sequence)
OwnOutcome(r) ==
    IF ~ValidBearer(header[r]) THEN <<BareError("token_missing")>>
    ELSE IF Undecodable(body[r]) THEN <<BareError("invalid_json")>>
    ELSE IF calls[r][1].err # Nil
    THEN <<BareError(CodeOfKind(KindByPriority(RawError(r), SubmittedName(r))))>>
    ELSE IF calls[r][2].err # Nil THEN <<>>
    ELSE LET g == Deref(calls[r][2].info)
         IN  IF g.ID = Nil \/ g.Name = Nil THEN <<>>
             ELSE <<[kind |-> "success",
                     envelope |->
                        [status |-> IF route[r] = "capability" THEN "" ELSE "success",
                         data |-> Ptr([ID |-> Deref(g.ID), Name |-> Deref(g.Name),
                                       Path |-> g.Path, Attributes |-> g.Attributes]),
                         messages |-> <<>>]]>>

\* the requests the concurrent claims are about: those that pass validation
\* or end before it
PastValidationOrEarlier(r) ==
    ~ValidBearer(header[r]) \/ Undecodable(body[r]) \/ NamePresent(body[r])

ResponsesAreOwn ==
    \A r \in ReqIds :
        /\ (pc[r] # "idle" /\ PastValidationOrEarlier(r)) => OwnCalls(r)
        /\ (Finished(r) /\ PastValidationOrEarlier(r)) => resp[r] = OwnOutcome(r)

\* C16: under every interleaving of concurrently handled requests, a step
\* of one handler changes nothing another handler holds and the shared
\* dependencies are never written; each request's provider calls carry its
\* own token and body, and its response is the function OwnOutcome of its own
\* header, its own body and the replies to its own calls.
C16_RequestsIsolated == []ResponsesAreOwn /\ [][StepIsLocal]_vars

\* a request was answered with success while another request, with another
\* token and another name, has its createGroup in flight
C16_Witness ==
    \E r, q \in ReqIds :
        /\ r # q
        /\ pc[r] = "done" /\ BothCallsSucceeded(r) /\ Len(resp[r]) = 1
        /\ pc[q] = "creating"
        /\ header[q] # header[r]
        /\ SubmittedName(q) # SubmittedName(r)


\* request r is valid: it passes token extraction, decoding and validation
ValidRequest(r) ==
    pc[r] # "idle" /\ ValidBearer(header[r]) /\ ~Undecodable(body[r])
    /\ NamePresent(body[r])

\* createGroup of request r was answered, and answered with the new id
CreateAnswered(r) == Len(calls[r]) >= 1 /\ calls[r][1].returned
CreateSucceeded(r) == CreateAnswered(r) /\ calls[r][1].err = Nil

\* createGroup of request r was answered by the provider's duplicate check
\* alone: with the new id, or with the conflict text for the name
AnsweredByDuplicateCheck(r) ==
    /\ CreateAnswered(r)
    /\ \/ calls[r][1].err = Nil
       \/ calls[r][1].err =
            Ptr("409 Conflict: Top level group named '" \o SubmittedName(r)
                \o "' already exists.")

\* request r ended in one error message of kind NameConflict
EndedInNameConflict(r) ==
    /\ pc[r] = "done"
    /\ OneErrorMessage(r)
    /\ KindOfCode(resp[r][1].envelope.messages[1].errcode) = "NameConflict"

EndedInSuccess(r) ==
    pc[r] = "done" /\ Len(resp[r]) = 1 /\ resp[r][1].kind = "success"

\* C17: a valid request at the create stage can always issue createGroup,
\* and one past that stage has issued it with its own name, whatever other
\* requests with the same name did or are doing.  Of two concurrent valid
\* requests with the same name whose createGroup calls the provider answered
\* by its duplicate check, at most one was created and at most one ends in a
\* success response, and once one was created the other ends in NameConflict.
C17_UniquenessLeftToProvider ==
    /\ \A r \in ReqIds :
        /\ pc[r] = "create" => ENABLED CallCreateGroup(r)
        /\ (ValidRequest(r) /\ Rank(pc[r]) > Rank("create")) =>
              /\ Len(calls[r]) >= 1
              /\ calls[r][1].op = "createGroup"
              /\ calls[r][1].group[1].Name = Ptr(SubmittedName(r))
    /\ \A r, q \in ReqIds :
        (/\ r # q
         /\ ValidRequest(r) /\ ValidRequest(q)
         /\ SubmittedName(r) = SubmittedName(q)
         /\ AnsweredByDuplicateCheck(r) /\ AnsweredByDuplicateCheck(q))
            => /\ ~(CreateSucceeded(r) /\ CreateSucceeded(q))
               /\ ~(EndedInSuccess(r) /\ EndedInSuccess(q))
               /\ (CreateSucceeded(r) /\ Finished(q)) => EndedInNameConflict(q)

\* two requests named Admins were both answered: one with success, the other
\* with the conflict code
C17_Witness ==
    \E r, q \in ReqIds :
        /\ r # q
        /\ ValidRequest(r) /\ ValidRequest(q)
        /\ SubmittedName(r) = "Admins" /\ SubmittedName(q) = "Admins"
        /\ EndedInSuccess(r)
        /\ EndedInNameConflict(q)


-----------------------------------------------------------------------------
(* The two handlers compared *)

\* the arguments of the provider calls of request r, in order
CallArgs(r) ==
    [k \in 1..Len(calls[r]) |->
        [op |-> calls[r][k].op, token |-> calls[r][k].token, realm |-> calls[r][k].realm,
         group |-> calls[r][k].group, id |-> calls[r][k].id]]

\* the error codes of an envelope, in order
Codes(e) == [k \in 1..Len(e.messages) |-> e.messages[k].errcode]

\* the twin has run to its end on the header and body of the original
TwinFinished == Finished(Original) /\ Finished(Twin)

\* both handlers made the same calls and ended alike, with as many
\* envelopes, carrying the same codes and the same data
SameCallsCodesData ==
    /\ CallArgs(Twin) = CallArgs(Original)
    /\ pc[Twin] = pc[Original]
    /\ Len(resp[Twin]) = Len(resp[Original])
    /\ \A k \in 1..Len(resp[Original]) :
        /\ Codes(resp[Twin][k].envelope) = Codes(resp[Original][k].envelope)
        /\ resp[Twin][k].envelope.data = resp[Original][k].envelope.data

SameStatus ==
    \A k \in 1..Len(resp[Original]) :
        resp[Twin][k].envelope.status = resp[Original][k].envelope.status

\* C18: given the same header, body and provider replies, the group handler
\* makes the same provider calls with the same arguments as the capability
\* handler, at every moment a prefix of them, and sends an envelope with the
\* same status, the same error codes and the same data.
C18_HandlersEquivalent ==
    /\ pc[Twin] # "idle" =>
         /\ Len(calls[Twin]) <= Len(calls[Original])
         /\ CallArgs(Twin) = SubSeq(CallArgs(Original), 1, Len(calls[Twin]))
    /\ TwinFinished => SameCallsCodesData /\ SameStatus

\* all of C18 but the status of the envelope
C18_EquivalentButStatus ==
    /\ pc[Twin] # "idle" =>
         /\ Len(calls[Twin]) <= Len(calls[Original])
         /\ CallArgs(Twin) = SubSeq(CallArgs(Original), 1, Len(calls[Twin]))
    /\ TwinFinished => SameCallsCodesData


-----------------------------------------------------------------------------
(* Validation of a request without a name *)

\* the body decodes, and decodes to a request whose Name is nil
NameAbsent(b) ==
    \/ b.json = "null"
    \/ b.json = "object" /\ b.name.t \in {"absent", "null"} /\ b.attributes.t # "string"

\* C19: for a decoded request whose name is absent (nil), validation
\* completes and the handler returns normally, having sent one error message
\* for field "name" with code "required" whose vals are the two-element
\* sequence of the message and the empty string.
C19_AbsentNameValidated ==
    \A r \in ReqIds :
        (ValidBearer(header[r]) /\ NameAbsent(body[r]) /\ Rank(pc[r]) > Rank("validate"))
            => /\ pc[r] = "done"
               /\ calls[r] = <<>>
               /\ OneErrorMessage(r)
               /\ resp[r][1].envelope.messages[1].field = Ptr("name")
               /\ resp[r][1].envelope.messages[1].errcode = "required"
               /\ Len(resp[r][1].envelope.messages[1].vals) = 2
               /\ resp[r][1].envelope.messages[1].vals[1]
                     \in {"Capability name is required", "group name is required"}
               /\ resp[r][1].envelope.messages[1].vals[2] = ""


-----------------------------------------------------------------------------
(* The name at createGroup *)

\* C20: whenever createGroup has been invoked, the decoded request's name is
\* non-nil and the name sent to the provider is exactly the name of the
\* request body; a request whose name is absent ends at validation without
\* a call; and after a createGroup failure the handler returns normally with
\* one message, so the interpolation of the name was defined.
C20_NamePresentAtCreate ==
    \A r \in ReqIds :
        /\ Len(calls[r]) >= 1 =>
             /\ req[r].Name # Nil
             /\ NamePresent(body[r])
             /\ req[r].Name = Ptr(SubmittedName(r))
             /\ calls[r][1].op = "createGroup"
             /\ calls[r][1].group # Nil
             /\ calls[r][1].group[1].Name = Ptr(SubmittedName(r))
        /\ (ValidBearer(header[r]) /\ NameAbsent(body[r])
              /\ Rank(pc[r]) > Rank("validate"))
             => Finished(r) /\ calls[r] = <<>>
        /\ (CreateFailed(r) /\ Rank(pc[r]) > Rank("created"))
             => pc[r] = "done" /\ OneErrorMessage(r)

\* createGroup for the name Ops failed with the conflict text for Ops and
\* the interpolated template matched it
C20_Witness ==
    \E r \in ReqIds :
        /\ pc[r] = "done" /\ CreateFailed(r)
        /\ SubmittedName(r) = "Ops"
        /\ RawError(r) = "409 Conflict: Top level group named 'Ops' already exists."
        /\ OneErrorResponse(r, "name already exist")

====
